---- MODULE Spec2Model ----
\* Model of the guint fixed-width unsigned integer packages (uint512, uint1024).
\* A value is an array of NumWords words, word 0 least significant.  The word
\* is scaled from 64 bits to WordBits bits and the array from 8 (16) words to
\* NumWords words; a byte is scaled to one bit, so a word holds BytesPerWord
\* bytes.  The rendering functions (String, Hex) need a half word that holds
\* the divisor 10 and a whole number of hexadecimal digits, so their words are
\* scaled separately, to HalfDigits hexadecimal digits per half word (8 in the
\* source).  Objects live in a heap indexed by address, so that allocation,
\* cloning and in-place writes are modelled as the code performs them.  Go
\* slices are sequences: slice index i is sequence index i + 1.
EXTENDS Integers, Sequences, FiniteSets, TLC

\* ---------------------------------------------------------------- bounds
BytesPerWord == 2
NumWords == 4
HalfDigits == 1

WordBits == BytesPerWord
Base == 2 ^ WordBits
WordMax == Base - 1
\* a product given no more words than an operand
SingleWidth == NumWords

WideWords == NumWords + NumWords
Width == NumWords * WordBits
NumBytes == NumWords * BytesPerWord
Modulus == Base ^ NumWords

WordIdx == 0 .. (NumWords - 1)
WideIdx == 0 .. (WideWords - 1)
WordVals == 0 .. WordMax
Uint512 == [WordIdx -> WordVals]

\* operands of the two-operand specifications: every combination of the
\* boundary words 0, 1 and all-ones
WordSamples == {0, 1, WordMax}
OperandSamples == [WordIdx -> WordSamples]

\* operands of the shift and bit specifications: words with every bit pattern
\* at their two ends
WordPatterns == {0, 1, WordMax - 1, WordMax}
PatternOperands == [WordIdx -> WordPatterns]

\* shift counts, to twice the width
ShiftCounts == 0 .. (Width + Width)

\* bit indices, from below zero to past the width
BitIndices == (0 - NumWords) .. (Width + NumWords)

\* ---------------------------------------------------------------- text scale
Ten == 10
HexRadix == 16
HalfBase == HexRadix ^ HalfDigits
TextBase == HalfBase * HalfBase
TextWordMax == TextBase - 1
HexPad == HalfDigits + HalfDigits
Digits == <<"0", "1", "2", "3", "4", "5", "6", "7",
            "8", "9", "a", "b", "c", "d", "e", "f">>

\* operands of the rendering specification
TextSamples == {0, Ten, TextWordMax}
TextOperands == [WordIdx -> TextSamples]

\* ---------------------------------------------------------------- heap
Globals == {"ZERO", "ONE", "MAX"}
Operands == {"u", "o"}
Temps == {"t1", "t2", "t3", "t4", "t5"}
Addr == Globals \cup Operands \cup Temps \cup {"w"}
NIL == "nil"

ZeroWords == [i \in WordIdx |-> 0]
OneWords == [i \in WordIdx |-> IF i = 0 THEN 1 ELSE 0]
MaxWords == [i \in WordIdx |-> WordMax]
ZeroWide == [i \in WideIdx |-> 0]

VARIABLES heap, pre, ret, err, op, bres, ires, data, dataSrc, limbs, limbsSrc,
          arg, str

vars == <<heap, pre, ret, err, op, bres, ires, data, dataSrc, limbs, limbsSrc, arg, str>>

\* numeric value of the words i .. n-1 of a little-endian word array
RECURSIVE ValueFrom(_, _, _)
ValueFrom(w, i, n) ==
    IF i >= n THEN 0 ELSE w[i] + Base * ValueFrom(w, i + 1, n)

Value(w) == ValueFrom(w, 0, NumWords)
WideValue(w) == ValueFrom(w, 0, WideWords)

\* ---------------------------------------------------------------- primitives
\* math/bits.Add64, Sub64, Mul64 at the model's word width
\* Add64 with the carry out lost
Add64NoCarry(x, y, carry) ==
    [sum |-> (x + y + carry) % Base, carry |-> 0]

Add64(x, y, carry) ==
    [sum |-> (x + y + carry) % Base, carry |-> (x + y + carry) \div Base]

Sub64(x, y, borrow) ==
    LET d == x - y - borrow
    IN  [diff |-> IF d < 0 THEN d + Base ELSE d,
         borrow |-> IF d < 0 THEN 1 ELSE 0]

\* Mul64 with the two halves taken in the wrong order
Mul64Swapped(x, y) ==
    [hi |-> (x * y) % Base, lo |-> (x * y) \div Base]

Mul64(x, y) ==
    [hi |-> (x * y) \div Base, lo |-> (x * y) % Base]

\* x | y on one word
RECURSIVE OrBits(_, _, _)
OrBits(x, y, k) ==
    IF k = 0 THEN 0
    ELSE (IF x % 2 = 1 \/ y % 2 = 1 THEN 1 ELSE 0)
         + 2 * OrBits(x \div 2, y \div 2, k - 1)

\* the table of x | y, computed once
OrTable == [x \in WordVals, y \in WordVals |-> OrBits(x, y, WordBits)]

Or64(x, y) == OrTable[x, y]

\* x ^ y on one word
RECURSIVE XorBits(_, _, _)
XorBits(x, y, k) ==
    IF k = 0 THEN 0
    ELSE (IF x % 2 # y % 2 THEN 1 ELSE 0)
         + 2 * XorBits(x \div 2, y \div 2, k - 1)

XorTable == [x \in WordVals, y \in WordVals |-> XorBits(x, y, WordBits)]

Xor64(x, y) == XorTable[x, y]

\* x &^ y on one word
RECURSIVE AndNotBits(_, _, _)
AndNotBits(x, y, k) ==
    IF k = 0 THEN 0
    ELSE (IF x % 2 = 1 /\ y % 2 = 0 THEN 1 ELSE 0)
         + 2 * AndNotBits(x \div 2, y \div 2, k - 1)

AndNotTable == [x \in WordVals, y \in WordVals |-> AndNotBits(x, y, WordBits)]

AndNot64(x, y) == AndNotTable[x, y]

\* x & y on one word
RECURSIVE AndBits(_, _, _)
AndBits(x, y, k) ==
    IF k = 0 THEN 0
    ELSE (IF x % 2 = 1 /\ y % 2 = 1 THEN 1 ELSE 0)
         + 2 * AndBits(x \div 2, y \div 2, k - 1)

AndTable == [x \in WordVals, y \in WordVals |-> AndBits(x, y, WordBits)]

And64(x, y) == AndTable[x, y]

\* ^x on one word
Not64(x) == Xor64(x, WordMax)


\* x << s and x >> s on one word, s < WordBits
Shl64(x, s) == (x * (2 ^ s)) % Base
Shr64(x, s) == x \div (2 ^ s)

\* ---------------------------------------------------------------- comparison
RECURSIVE EqualFrom(_, _, _)
EqualFrom(uw, ow, i) ==
    IF i >= NumWords THEN TRUE
    ELSE IF uw[i] # ow[i] THEN FALSE
    ELSE EqualFrom(uw, ow, i + 1)

\* Equal returning after the first word
EqualFirstWord(uw, ow) == uw[0] = ow[0]

Equal(uw, ow) == EqualFrom(uw, ow, 0)

RECURSIVE LessFrom(_, _, _)
LessFrom(uw, ow, i) ==
    IF i < 0 THEN FALSE
    ELSE IF uw[i] < ow[i] THEN TRUE
    ELSE IF uw[i] > ow[i] THEN FALSE
    ELSE LessFrom(uw, ow, i - 1)

\* Less answering true for equal operands
LessOrSame(uw, ow) == LessFrom(uw, ow, NumWords - 1) \/ EqualFrom(uw, ow, 0)

\* Less scanning from the least significant word up
RECURSIVE LessUp(_, _, _)
LessUp(uw, ow, i) ==
    IF i >= NumWords THEN FALSE
    ELSE IF uw[i] < ow[i] THEN TRUE
    ELSE IF uw[i] > ow[i] THEN FALSE
    ELSE LessUp(uw, ow, i + 1)

LessAscending(uw, ow) == LessUp(uw, ow, 0)

Less(uw, ow) == LessFrom(uw, ow, NumWords - 1)

LessOrEqual(uw, ow) == Less(uw, ow) \/ Equal(uw, ow)

Greater(uw, ow) == Less(ow, uw)

GreaterOrEqual(uw, ow) == Greater(uw, ow) \/ Equal(uw, ow)

NotEqual(uw, ow) == ~Equal(uw, ow)

RECURSIVE CompareFrom(_, _, _)
CompareFrom(uw, ow, i) ==
    IF i < 0 THEN 0
    ELSE IF uw[i] < ow[i] THEN -1
    ELSE IF uw[i] > ow[i] THEN 1
    ELSE CompareFrom(uw, ow, i - 1)

Compare(uw, ow) == CompareFrom(uw, ow, NumWords - 1)

\* ---------------------------------------------------------------- objects
\* IsZero looking at the low word only
IsZeroLowWord(h, u) == h[u][0] = h["ZERO"][0]

\* u.Equal(ZERO): reads the package-level ZERO object
IsZero(h, u) == Equal(h[u], h["ZERO"])

\* Clone handing back the object it was asked to copy
CloneAliased(h, src, new) == [h |-> h, ref |-> src]

\* a fresh object at address new holding a copy of the words of src
Clone(h, src, new) ==
    [h |-> [h EXCEPT ![new] = h[src]], ref |-> new]

\* Min returning the winning operand itself
MinAliased(h, u, o, new) ==
    IF Less(h[u], h[o]) THEN [h |-> h, ref |-> u] ELSE [h |-> h, ref |-> o]

Min(h, u, o, new) ==
    IF Less(h[u], h[o]) THEN Clone(h, u, new) ELSE Clone(h, o, new)

Max(h, u, o, new) ==
    IF Greater(h[u], h[o]) THEN Clone(h, u, new) ELSE Clone(h, o, new)

\* ---------------------------------------------------------------- bit access
\* the clearing loop stopping one word short
RECURSIVE ClearLowWords(_, _)
ClearLowWords(w, i) ==
    IF i >= NumWords - 1 THEN w
    ELSE ClearLowWords([w EXCEPT ![i] = 0], i + 1)

\* for i := range u.words { u.words[i] = 0 }
RECURSIVE ClearWords(_, _)
ClearWords(w, i) ==
    IF i >= NumWords THEN w
    ELSE ClearWords([w EXCEPT ![i] = 0], i + 1)

\* for i := len-1; i >= wordShift; i-- { u.words[i] = u.words[i-wordShift] }
RECURSIVE ShlMoveWords(_, _, _)
ShlMoveWords(w, ws, i) ==
    IF i < ws THEN w
    ELSE ShlMoveWords([w EXCEPT ![i] = w[i - ws]], ws, i - 1)

\* for i := 0; i < wordShift; i++ { u.words[i] = 0 }
RECURSIVE ShlZeroFill(_, _, _)
ShlZeroFill(w, ws, i) ==
    IF i >= ws THEN w
    ELSE ShlZeroFill([w EXCEPT ![i] = 0], ws, i + 1)

\* the carry loop of the sub-word left shift
RECURSIVE ShlBits(_, _, _, _)
ShlBits(w, bs, i, carry) ==
    IF i >= NumWords THEN w
    ELSE LET newCarry == Shr64(w[i], WordBits - bs)
             word == Or64(Shl64(w[i], bs), carry)
         IN  ShlBits([w EXCEPT ![i] = word], bs, i + 1, newCarry)

\* the words of u after u.ShlInPlace(n)
ShlWords(w, n) ==
    IF n = 0 THEN w
    ELSE IF n >= Width THEN ClearWords(w, 0)
    ELSE LET wordShift == n \div WordBits
             bitShift == n % WordBits
             w1 == IF wordShift > 0
                   THEN ShlZeroFill(ShlMoveWords(w, wordShift, NumWords - 1),
                                    wordShift, 0)
                   ELSE w
         IN  IF bitShift > 0 THEN ShlBits(w1, bitShift, wordShift, 0) ELSE w1

ShlInPlace(h, u, n) == [h EXCEPT ![u] = ShlWords(h[u], n)]

\* Shl shifting the receiver itself and returning it
ShlReceiver(h, u, n, new) == [h |-> ShlInPlace(h, u, n), ref |-> u]

\* result := u.Clone(); result.ShlInPlace(n)
Shl(h, u, n, new) ==
    LET result == Clone(h, u, new)
    IN  [h |-> ShlInPlace(result.h, result.ref, n), ref |-> result.ref]

\* for i := 0; i < len-wordShift; i++ { u.words[i] = u.words[i+wordShift] }
RECURSIVE ShrMoveWords(_, _, _)
ShrMoveWords(w, ws, i) ==
    IF i >= NumWords - ws THEN w
    ELSE ShrMoveWords([w EXCEPT ![i] = w[i + ws]], ws, i + 1)

\* for i := len-wordShift; i < len; i++ { u.words[i] = 0 }
RECURSIVE ShrZeroFill(_, _)
ShrZeroFill(w, i) ==
    IF i >= NumWords THEN w
    ELSE ShrZeroFill([w EXCEPT ![i] = 0], i + 1)

\* the sub-word right shift with the carry lost at the word boundary
RECURSIVE ShrBitsNoCarry(_, _, _, _)
ShrBitsNoCarry(w, bs, i, carry) ==
    IF i < 0 THEN w
    ELSE ShrBitsNoCarry([w EXCEPT ![i] = Shr64(w[i], bs)], bs, i - 1, 0)

\* the carry loop of the sub-word right shift
RECURSIVE ShrBits(_, _, _, _)
ShrBits(w, bs, i, carry) ==
    IF i < 0 THEN w
    ELSE LET newCarry == Shl64(w[i], WordBits - bs)
             word == Or64(Shr64(w[i], bs), carry)
         IN  ShrBits([w EXCEPT ![i] = word], bs, i - 1, newCarry)

\* the words of u after u.ShrInPlace(n)
ShrWords(w, n) ==
    IF n = 0 THEN w
    ELSE IF n >= Width THEN ClearWords(w, 0)
    ELSE LET wordShift == n \div WordBits
             bitShift == n % WordBits
             w1 == IF wordShift > 0
                   THEN ShrZeroFill(ShrMoveWords(w, wordShift, 0),
                                    NumWords - wordShift)
                   ELSE w
         IN  IF bitShift > 0
             THEN ShrBits(w1, bitShift, NumWords - wordShift - 1, 0)
             ELSE w1

ShrInPlace(h, u, n) == [h EXCEPT ![u] = ShrWords(h[u], n)]

\* result := u.Clone(); result.ShrInPlace(n)
Shr(h, u, n, new) ==
    LET result == Clone(h, u, new)
    IN  [h |-> ShrInPlace(result.h, result.ref, n), ref |-> result.ref]

Bit(uw, i) ==
    IF i < 0 \/ i >= Width THEN FALSE
    ELSE LET wordIndex == i \div WordBits
             bitIndex == i % WordBits
         IN  (uw[wordIndex] \div (2 ^ bitIndex)) % 2 = 1

\* the words of u after u.SetBit(i)
SetBitWords(w, i) ==
    IF i < 0 \/ i >= Width THEN w
    ELSE LET wordIndex == i \div WordBits
             bitIndex == i % WordBits
         IN  [w EXCEPT ![wordIndex] = Or64(@, 2 ^ bitIndex)]

SetBit(h, u, i) == [h EXCEPT ![u] = SetBitWords(h[u], i)]

\* the words of u after u.ClearBit(i)
ClearBitWords(w, i) ==
    IF i < 0 \/ i >= Width THEN w
    ELSE LET wordIndex == i \div WordBits
             bitIndex == i % WordBits
         IN  [w EXCEPT ![wordIndex] = AndNot64(@, 2 ^ bitIndex)]

\* FlipBit setting the bit instead of inverting it
FlipBitAsSet(w, i) ==
    IF i < 0 \/ i >= Width THEN w
    ELSE [w EXCEPT ![i \div WordBits] = Or64(@, 2 ^ (i % WordBits))]

\* the words of u after u.FlipBit(i)
FlipBitWords(w, i) ==
    IF i < 0 \/ i >= Width THEN w
    ELSE LET wordIndex == i \div WordBits
             bitIndex == i % WordBits
         IN  [w EXCEPT ![wordIndex] = Xor64(@, 2 ^ bitIndex)]

\* ---------------------------------------------------------------- bitwise
\* the operator a bitwise method applies to word i of receiver and argument
WordOp(f, x, y) ==
    CASE f = "&" -> And64(x, y)
      [] f = "|" -> Or64(x, y)
      [] f = "^" -> Xor64(x, y)
      [] f = "^x" -> Not64(x)

\* for i := range u.words { result.words[i] = u.words[i] f other.words[i] },
\* result being the object at new
RECURSIVE WordLoop(_, _, _, _, _, _)
WordLoop(f, h, u, o, new, i) ==
    IF i >= NumWords THEN h
    ELSE WordLoop(f, [h EXCEPT ![new][i] = WordOp(f, h[u][i], h[o][i])],
                  u, o, new, i + 1)

And(h, u, o, new) ==
    [h |-> WordLoop("&", [h EXCEPT ![new] = ZeroWords], u, o, new, 0), ref |-> new]

Or(h, u, o, new) ==
    [h |-> WordLoop("|", [h EXCEPT ![new] = ZeroWords], u, o, new, 0), ref |-> new]

Xor(h, u, o, new) ==
    [h |-> WordLoop("^", [h EXCEPT ![new] = ZeroWords], u, o, new, 0), ref |-> new]

\* result.words[i] = ^u.words[i]
Not(h, u, new) ==
    [h |-> WordLoop("^x", [h EXCEPT ![new] = ZeroWords], u, u, new, 0), ref |-> new]

\* for i := range u.words { u.words[i] &= other.words[i] }: the loop writes the
\* receiver's own array, which is also the argument's when the two are aliased
AndInPlace(h, u, o) == WordLoop("&", h, u, o, u, 0)

OrInPlace(h, u, o) == WordLoop("|", h, u, o, u, 0)

XorInPlace(h, u, o) == WordLoop("^", h, u, o, u, 0)

NotInPlace(h, u) == WordLoop("^x", h, u, u, u, 0)

\* ---------------------------------------------------------------- add / sub
\* The word loop of Add and AddInPlace.  res is the array written (a fresh
\* zeroed one, or the receiver's); word i of the operands is read before word
\* i is written and never again, so an aliased receiver changes nothing.
RECURSIVE AddLoop(_, _, _, _, _)
AddLoop(res, uw, ow, i, carry) ==
    IF i >= NumWords THEN res
    ELSE LET r == Add64(uw[i], ow[i], carry)
         IN  AddLoop([res EXCEPT ![i] = r.sum], uw, ow, i + 1, r.carry)

Add(h, u, o, new) ==
    [h |-> [h EXCEPT ![new] = AddLoop(ZeroWords, h[u], h[o], 0, 0)], ref |-> new]

\* The word loop of AddInPlace on the heap: pass i reads u.words[i] and
\* other.words[i] and then writes u.words[i], also when u and other are one
\* object.
RECURSIVE AddInPlaceFrom(_, _, _, _, _)
AddInPlaceFrom(h, u, o, i, carry) ==
    IF i >= NumWords THEN h
    ELSE LET r == Add64(h[u][i], h[o][i], carry)
         IN  AddInPlaceFrom([h EXCEPT ![u][i] = r.sum], u, o, i + 1, r.carry)

\* AddInPlace accumulating into its argument
AddInPlaceSwapped(h, u, o) == AddInPlaceFrom(h, o, u, 0, 0)

AddInPlace(h, u, o) == AddInPlaceFrom(h, u, o, 0, 0)

RECURSIVE SubLoop(_, _, _, _, _)
SubLoop(res, uw, ow, i, borrow) ==
    IF i >= NumWords THEN res
    ELSE LET r == Sub64(uw[i], ow[i], borrow)
         IN  SubLoop([res EXCEPT ![i] = r.diff], uw, ow, i + 1, r.borrow)

Sub(h, u, o, new) ==
    [h |-> [h EXCEPT ![new] = SubLoop(ZeroWords, h[u], h[o], 0, 0)], ref |-> new]

\* SubInPlace with the borrow not carried to the next word
SubNoBorrowWords(uw, ow) == [i \in WordIdx |-> Sub64(uw[i], ow[i], 0).diff]

\* the words of u after u.SubInPlace(other)
SubInPlaceWords(uw, ow) == SubLoop(uw, uw, ow, 0, 0)

\* the word loop of SubInPlace on the heap
RECURSIVE SubInPlaceFrom(_, _, _, _, _)
SubInPlaceFrom(h, u, o, i, borrow) ==
    IF i >= NumWords THEN h
    ELSE LET r == Sub64(h[u][i], h[o][i], borrow)
         IN  SubInPlaceFrom([h EXCEPT ![u][i] = r.diff], u, o, i + 1, r.borrow)

SubInPlace(h, u, o) == SubInPlaceFrom(h, u, o, 0, 0)

\* ---------------------------------------------------------------- mul
\* the j loop of row i; res is result.words and rl its length; yields the
\* words and the carry pending when the loop exits
RECURSIVE MulInner(_, _, _, _, _, _, _)
MulInner(res, uw, ow, i, j, carry, rl) ==
    IF ~(j < NumWords /\ i + j < rl) THEN [res |-> res, carry |-> carry]
    ELSE IF ow[j] = 0 THEN MulInner(res, uw, ow, i, j + 1, carry, rl)
    ELSE LET p == Mul64(uw[i], ow[j])
             s1 == Add64(res[i + j], p.lo, carry)
             r1 == [res EXCEPT ![i + j] = s1.sum]
         IN  IF i + j + 1 < rl
             THEN LET s2 == Add64(r1[i + j + 1], p.hi, s1.carry)
                  IN  MulInner([r1 EXCEPT ![i + j + 1] = s2.sum],
                               uw, ow, i, j + 1, s2.carry, rl)
             ELSE MulInner(r1, uw, ow, i, j + 1, s1.carry, rl)

\* for carry != 0 && k < len(result.words) { ...; k++ }
RECURSIVE MulPropagate(_, _, _, _)
MulPropagate(res, k, carry, rl) ==
    IF ~(carry # 0 /\ k < rl) THEN [res |-> res, carry |-> carry]
    ELSE LET s == Add64(res[k], carry, 0)
         IN  MulPropagate([res EXCEPT ![k] = s.sum], k + 1, s.carry, rl)

\* the i loop over the words of u
RECURSIVE MulRows(_, _, _, _, _)
MulRows(res, uw, ow, i, rl) ==
    IF i >= NumWords THEN res
    ELSE IF uw[i] = 0 THEN MulRows(res, uw, ow, i + 1, rl)
    ELSE LET inner == MulInner(res, uw, ow, i, 0, 0, rl)
             prop == MulPropagate(inner.res, i + NumWords, inner.carry, rl)
         IN  MulRows(prop.res, uw, ow, i + 1, rl)

\* one pass of the body of the i loop: the words of the result after it, the
\* carry its carry loop exits with, and whether that loop ran at all
MulRow(res, uw, ow, i, rl) ==
    IF uw[i] = 0 THEN [res |-> res, carry |-> 0, ran |-> FALSE]
    ELSE LET inner == MulInner(res, uw, ow, i, 0, 0, rl)
             prop == MulPropagate(inner.res, i + NumWords, inner.carry, rl)
         IN  [res |-> prop.res, carry |-> prop.carry, ran |-> inner.carry # 0]

\* uint512.Mul: the result is a fresh double-width object
Mul(h, u, o, new) ==
    [h |-> [h EXCEPT ![new] = MulRows(ZeroWide, h[u], h[o], 0, WideWords)],
     ref |-> new]

\* the j loop of row i with the test of other.words[j] == 0 taken out
RECURSIVE MulInnerNoSkip(_, _, _, _, _, _, _)
MulInnerNoSkip(res, uw, ow, i, j, carry, rl) ==
    IF ~(j < NumWords /\ i + j < rl) THEN [res |-> res, carry |-> carry]
    ELSE LET p == Mul64(uw[i], ow[j])
             s1 == Add64(res[i + j], p.lo, carry)
             r1 == [res EXCEPT ![i + j] = s1.sum]
         IN  IF i + j + 1 < rl
             THEN LET s2 == Add64(r1[i + j + 1], p.hi, s1.carry)
                  IN  MulInnerNoSkip([r1 EXCEPT ![i + j + 1] = s2.sum],
                                     uw, ow, i, j + 1, s2.carry, rl)
             ELSE MulInnerNoSkip(r1, uw, ow, i, j + 1, s1.carry, rl)

\* the i loop with the test of u.words[i] == 0 taken out
RECURSIVE MulRowsNoSkip(_, _, _, _, _)
MulRowsNoSkip(res, uw, ow, i, rl) ==
    IF i >= NumWords THEN res
    ELSE LET inner == MulInnerNoSkip(res, uw, ow, i, 0, 0, rl)
             prop == MulPropagate(inner.res, i + NumWords, inner.carry, rl)
         IN  MulRowsNoSkip(prop.res, uw, ow, i + 1, rl)

\* Uint1024.Mul of the 16-word package: the same loops on a result that has the
\* length of an operand
Mul1024(h, u, o, new) ==
    [h |-> [h EXCEPT ![new] = MulRows(ZeroWords, h[u], h[o], 0, NumWords)],
     ref |-> new]

\* ---------------------------------------------------------------- div / mod
\* The bit loop of Div from bit i down to bit 0 on the words of the quotient
\* and remainder objects, which are fresh and so distinct from u and other.
RECURSIVE DivLoop(_, _, _, _, _)
DivLoop(uw, ow, quotient, remainder, i) ==
    IF i < 0 THEN [quotient |-> quotient, remainder |-> remainder]
    ELSE LET r1 == ShlWords(remainder, 1)
             r2 == IF Bit(uw, i) THEN [r1 EXCEPT ![0] = Or64(@, 1)] ELSE r1
         IN  IF ~Less(r2, ow)
             THEN DivLoop(uw, ow, SetBitWords(quotient, i),
                          SubInPlaceWords(r2, ow), i - 1)
             ELSE DivLoop(uw, ow, quotient, r2, i - 1)

Div(h, u, o, newq, newr) ==
    IF IsZero(h, o) THEN [h |-> h, ref |-> NIL, err |-> TRUE]
    ELSE IF Less(h[u], h[o])
    THEN LET c == Clone(h, "ZERO", newq)
         IN  [h |-> c.h, ref |-> c.ref, err |-> FALSE]
    ELSE IF Equal(h[u], h[o])
    THEN LET c == Clone(h, "ONE", newq)
         IN  [h |-> c.h, ref |-> c.ref, err |-> FALSE]
    ELSE LET quotient == Clone(h, "ZERO", newq)
             remainder == Clone(quotient.h, "ZERO", newr)
             h1 == remainder.h
             loop == DivLoop(h1[u], h1[o], h1[quotient.ref], h1[remainder.ref],
                             Width - 1)
         IN  [h |-> [h1 EXCEPT ![remainder.ref] = loop.remainder,
                               ![quotient.ref] = loop.quotient],
              ref |-> quotient.ref, err |-> FALSE]

\* the bit loop of Mod: as DivLoop without the quotient
RECURSIVE ModLoop(_, _, _, _)
ModLoop(uw, ow, remainder, i) ==
    IF i < 0 THEN remainder
    ELSE LET r1 == ShlWords(remainder, 1)
             r2 == IF Bit(uw, i) THEN [r1 EXCEPT ![0] = Or64(@, 1)] ELSE r1
         IN  IF ~Less(r2, ow)
             THEN ModLoop(uw, ow, SubInPlaceWords(r2, ow), i - 1)
             ELSE ModLoop(uw, ow, r2, i - 1)

Mod(h, u, o, new) ==
    IF IsZero(h, o) THEN [h |-> h, ref |-> NIL, err |-> TRUE]
    ELSE IF Less(h[u], h[o])
    THEN LET c == Clone(h, u, new)
         IN  [h |-> c.h, ref |-> c.ref, err |-> FALSE]
    ELSE IF Equal(h[u], h[o])
    THEN LET c == Clone(h, "ZERO", new)
         IN  [h |-> c.h, ref |-> c.ref, err |-> FALSE]
    ELSE LET remainder == Clone(h, "ZERO", new)
             h1 == remainder.h
         IN  [h |-> [h1 EXCEPT ![remainder.ref] =
                        ModLoop(h1[u], h1[o], h1[remainder.ref], Width - 1)],
              ref |-> remainder.ref, err |-> FALSE]

\* the borrow SubInPlace is left with after the last word, which it drops
RECURSIVE SubBorrowOut(_, _, _, _)
SubBorrowOut(uw, ow, i, borrow) ==
    IF i >= NumWords THEN borrow
    ELSE SubBorrowOut(uw, ow, i + 1, Sub64(uw[i], ow[i], borrow).borrow)

\* the body of the bit loop of Div subtracting only when remainder > other
DivStepGreater(uw, ow, quotient, remainder, i) ==
    LET r1 == ShlWords(remainder, 1)
        r2 == IF Bit(uw, i) THEN [r1 EXCEPT ![0] = Or64(@, 1)] ELSE r1
    IN  IF Greater(r2, ow)
        THEN [quotient |-> SetBitWords(quotient, i),
              remainder |-> SubInPlaceWords(r2, ow),
              lost |-> Bit(remainder, Width - 1) \/ SubBorrowOut(r2, ow, 0, 0) = 1]
        ELSE [quotient |-> quotient, remainder |-> r2,
              lost |-> Bit(remainder, Width - 1)]

\* One pass of the body of the bit loop of Div, for bit i.  lost tells whether
\* ShlInPlace(1) shifted a set bit out of the top word or SubInPlace dropped a
\* borrow.
DivStep(uw, ow, quotient, remainder, i) ==
    LET r1 == ShlWords(remainder, 1)
        r2 == IF Bit(uw, i) THEN [r1 EXCEPT ![0] = Or64(@, 1)] ELSE r1
    IN  IF ~Less(r2, ow)
        THEN [quotient |-> SetBitWords(quotient, i),
              remainder |-> SubInPlaceWords(r2, ow),
              lost |-> Bit(remainder, Width - 1) \/ SubBorrowOut(r2, ow, 0, 0) = 1]
        ELSE [quotient |-> quotient, remainder |-> r2,
              lost |-> Bit(remainder, Width - 1)]

\* one pass of the body of the bit loop of Mod
ModStep(uw, ow, remainder, i) ==
    LET r1 == ShlWords(remainder, 1)
        r2 == IF Bit(uw, i) THEN [r1 EXCEPT ![0] = Or64(@, 1)] ELSE r1
    IN  IF ~Less(r2, ow)
        THEN [remainder |-> SubInPlaceWords(r2, ow),
              lost |-> Bit(remainder, Width - 1) \/ SubBorrowOut(r2, ow, 0, 0) = 1]
        ELSE [remainder |-> r2, lost |-> Bit(remainder, Width - 1)]

\* ---------------------------------------------------------------- codec
\* copy(dst, src) into a zeroed buffer of n elements: the leading elements of
\* src, as many as fit
CopyInto(n, src) ==
    [k \in 1 .. n |-> IF k <= Len(src) THEN src[k] ELSE 0]

\* binary.LittleEndian.PutUint64 / Uint64 on a buffer of BytesPerWord bytes
LePut(v) == [k \in 1 .. BytesPerWord |-> (v \div (2 ^ (k - 1))) % 2]

RECURSIVE LeGetFrom(_, _)
LeGetFrom(b, k) ==
    IF k > BytesPerWord THEN 0
    ELSE b[k] * (2 ^ (k - 1)) + LeGetFrom(b, k + 1)

LeGet(b) == LeGetFrom(b, 1)

\* binary.BigEndian.PutUint64 / Uint64 on a buffer of BytesPerWord bytes
BePut(v) == [k \in 1 .. BytesPerWord |-> (v \div (2 ^ (BytesPerWord - k))) % 2]

RECURSIVE BeGetFrom(_, _)
BeGetFrom(b, k) ==
    IF k > BytesPerWord THEN 0
    ELSE b[k] * (2 ^ (BytesPerWord - k)) + BeGetFrom(b, k + 1)

\* the big-endian read done in little-endian order
BeGetAsLe(b) == LeGetFrom(b, 1)

BeGet(b) == BeGetFrom(b, 1)

\* s[from : to] of a Go slice
Slice(s, from, to) == SubSeq(s, from + 1, to)

Min2(a, b) == IF a < b THEN a ELSE b

FromLimbsWords(in) ==
    LET n == Min2(Len(in), NumWords)
    IN  [i \in WordIdx |-> IF i < n THEN in[i + 1] ELSE 0]

FromLimbs(h, in, new) ==
    [h |-> [h EXCEPT ![new] = FromLimbsWords(in)], ref |-> new]

\* FromLeBytes reading a word only when all its bytes are present
FromLeWordWhole(d, dataLen, i) ==
    IF (i + 1) * BytesPerWord <= dataLen
    THEN LeGet(Slice(d, i * BytesPerWord, (i + 1) * BytesPerWord))
    ELSE 0

\* word i of FromLeBytes(d)
FromLeWord(d, dataLen, i) ==
    LET start == i * BytesPerWord
        end == start + BytesPerWord
        bytesToRead == IF end > dataLen THEN dataLen - start ELSE BytesPerWord
    IN  IF start < dataLen
        THEN LeGet(CopyInto(BytesPerWord, Slice(d, start, start + bytesToRead)))
        ELSE 0

FromLeBytesWords(d) ==
    LET dataLen == Min2(Len(d), NumBytes)
    IN  [i \in WordIdx |-> FromLeWord(d, dataLen, i)]

FromLeBytes(h, d, new) ==
    [h |-> [h EXCEPT ![new] = FromLeBytesWords(d)], ref |-> new]

\* FromBeBytes copying the input to the front of the padded buffer
FromBeBytesLeftAligned(d) ==
    LET padded == CopyInto(NumBytes, d)
    IN  [w \in WordIdx |->
            LET start == (NumWords - 1 - w) * BytesPerWord
            IN  BeGet(Slice(padded, start, start + BytesPerWord))]

FromBeBytesWords(d) ==
    LET dataLen == Min2(Len(d), NumBytes)
        padded == [k \in 1 .. NumBytes |->
                      IF k > NumBytes - dataLen
                      THEN d[k - (NumBytes - dataLen)] ELSE 0]
    IN  IF dataLen = 0 THEN ZeroWords
        ELSE [w \in WordIdx |->
                LET i == NumWords - 1 - w
                    start == i * BytesPerWord
                IN  BeGet(Slice(padded, start, start + BytesPerWord))]

FromBeBytes(h, d, new) ==
    [h |-> [h EXCEPT ![new] = FromBeBytesWords(d)], ref |-> new]

ToLimbs(uw) == [k \in 1 .. NumWords |-> uw[k - 1]]

\* byte k (from 1) of the output lies in the buffer of word (k-1) / BytesPerWord
ToLeBytes(uw) ==
    [k \in 1 .. NumBytes |->
        LePut(uw[(k - 1) \div BytesPerWord])[((k - 1) % BytesPerWord) + 1]]

\* ToBeBytes keeping the words in their stored order
ToBeBytesWordOrder(uw) ==
    [k \in 1 .. NumBytes |->
        BePut(uw[(k - 1) \div BytesPerWord])[((k - 1) % BytesPerWord) + 1]]

ToBeBytes(uw) ==
    [k \in 1 .. NumBytes |->
        LET i == (k - 1) \div BytesPerWord
            wordIndex == NumWords - 1 - i
        IN  BePut(uw[wordIndex])[((k - 1) % BytesPerWord) + 1]]

\* ---------------------------------------------------------------- rendering
\* x | y on one hexadecimal digit (of fewer than HexRadix bits), computed once
DigitOr == [x \in 0 .. (HexRadix - 1), y \in 0 .. (HexRadix - 1) |->
               OrBits(x, y, HexRadix)]

\* x | y on the k low hexadecimal digits
RECURSIVE OrDigits(_, _, _)
OrDigits(x, y, k) ==
    IF k = 0 THEN 0
    ELSE DigitOr[x % HexRadix, y % HexRadix]
         + HexRadix * OrDigits(x \div HexRadix, y \div HexRadix, k - 1)

\* x | y on a word of the text scale
TextOr(x, y) == OrDigits(x, y, HexPad)

\* divBySmall on the words i .. 0 of w; the word is divided in two halves,
\* high half first, every intermediate value truncated to the word
RECURSIVE divBySmall(_, _, _, _)
divBySmall(w, i, remainder, divisor) ==
    IF i < 0 THEN [words |-> w, remainder |-> remainder]
    ELSE LET dividend1 == TextOr((remainder * HalfBase) % TextBase,
                                 w[i] \div HalfBase)
             word1 == TextOr(w[i] % HalfBase,
                             ((dividend1 \div divisor) * HalfBase) % TextBase)
             remainder1 == dividend1 % divisor
             dividend2 == TextOr((remainder1 * HalfBase) % TextBase,
                                 word1 % HalfBase)
             word2 == TextOr(word1 - (word1 % HalfBase), dividend2 \div divisor)
         IN  divBySmall([w EXCEPT ![i] = word2], i - 1,
                        dividend2 % divisor, divisor)

\* the digits in their order of production
Unreversed(s) == s

\* for i, j := 0, len-1; i < j; ... { digits[i], digits[j] = digits[j], digits[i] }
Reverse(s) == [k \in 1 .. Len(s) |-> s[Len(s) + 1 - k]]

\* for !temp.IsZero() { remainder := temp.divBySmall(10); digits = append(...) }
RECURSIVE StringLoop(_, _, _)
StringLoop(temp, zero, digits) ==
    IF Equal(temp, zero) THEN [temp |-> temp, digits |-> digits]
    ELSE LET d == divBySmall(temp, NumWords - 1, 0, Ten)
         IN  StringLoop(d.words, zero, Append(digits, Digits[d.remainder + 1]))

\* Uint512.String: the division runs on a clone at address new
String(h, u, new) ==
    IF IsZero(h, u) THEN [h |-> h, str |-> <<"0">>]
    ELSE LET temp == Clone(h, u, new)
             loop == StringLoop(temp.h[temp.ref], temp.h["ZERO"], <<>>)
         IN  [h |-> [temp.h EXCEPT ![temp.ref] = loop.temp],
              str |-> Reverse(loop.digits)]

\* Uint1024.isZero
isZero(w) == \A i \in WideIdx : w[i] = 0

RECURSIVE WideStringLoop(_, _)
WideStringLoop(temp, digits) ==
    IF isZero(temp) THEN [temp |-> temp, digits |-> digits]
    ELSE LET d == divBySmall(temp, WideWords - 1, 0, Ten)
         IN  WideStringLoop(d.words, Append(digits, Digits[d.remainder + 1]))

\* String of the double-width product: the division runs on a copy at new
WideString(h, u, new) ==
    IF isZero(h[u]) THEN [h |-> h, str |-> <<"0">>]
    ELSE LET loop == WideStringLoop(h[u], <<>>)
         IN  [h |-> [h EXCEPT ![new] = loop.temp], str |-> Reverse(loop.digits)]

\* Sprintf with %x ignoring a requested width
RECURSIVE FormatHexUnpadded(_, _)
FormatHexUnpadded(v, width) ==
    IF v < HexRadix THEN <<Digits[v + 1]>>
    ELSE Append(FormatHexUnpadded(v \div HexRadix, width), Digits[(v % HexRadix) + 1])

\* fmt.Sprintf("%x", v) with width 0 and fmt.Sprintf("%016x", v) with the
\* width of a word: lowercase digits, zero-padded on the left to width
RECURSIVE FormatHex(_, _)
FormatHex(v, width) ==
    IF v < HexRadix /\ width <= 1 THEN <<Digits[v + 1]>>
    ELSE Append(FormatHex(v \div HexRadix, width - 1), Digits[(v % HexRadix) + 1])

\* for i := len-1; i >= 0; i-- { if u.words[i] != 0 { msw = i; break } }
RECURSIVE MostSignificantWord(_, _)
MostSignificantWord(w, i) ==
    IF i < 0 THEN -1
    ELSE IF w[i] # 0 THEN i
    ELSE MostSignificantWord(w, i - 1)

\* for i := msw-1; i >= 0; i-- { WriteString(Sprintf("%016x", u.words[i])) }
RECURSIVE HexTail(_, _)
HexTail(w, i) ==
    IF i < 0 THEN <<>> ELSE FormatHex(w[i], HexPad) \o HexTail(w, i - 1)

Hex(h, u) ==
    LET msw == MostSignificantWord(h[u], NumWords - 1)
    IN  IF IsZero(h, u) \/ msw = -1 THEN <<"0", "x", "0">>
        ELSE <<"0", "x">> \o FormatHex(h[u][msw], 0) \o HexTail(h[u], msw - 1)

\* ---------------------------------------------------------------- accesses
\* The word indices an operation uses, and the bounds <<low, high, cap>> of
\* the slice expressions s[low:high] it evaluates on a slice of capacity cap.

\* ShlInPlace(n): the move loop reads i-wordShift and writes i, the fill loop
\* writes below wordShift, the bit loop runs from wordShift up
ShlIndices(n) ==
    IF n = 0 THEN {}
    ELSE IF n >= Width THEN 0 .. (NumWords - 1)
    ELSE LET wordShift == n \div WordBits
             bitShift == n % WordBits
             moved == wordShift .. (NumWords - 1)
         IN  (IF wordShift > 0
              THEN moved \cup {i - wordShift : i \in moved}
                         \cup 0 .. (wordShift - 1)
              ELSE {})
             \cup (IF bitShift > 0 THEN wordShift .. (NumWords - 1) ELSE {})

\* ShrInPlace(n): the move loop reads i+wordShift and writes i, the fill loop
\* writes from len-wordShift up, the bit loop runs from len-wordShift-1 down
ShrIndices(n) ==
    IF n = 0 THEN {}
    ELSE IF n >= Width THEN 0 .. (NumWords - 1)
    ELSE LET wordShift == n \div WordBits
             bitShift == n % WordBits
             moved == 0 .. (NumWords - wordShift - 1)
         IN  (IF wordShift > 0
              THEN moved \cup {i + wordShift : i \in moved}
                         \cup (NumWords - wordShift) .. (NumWords - 1)
              ELSE {})
             \cup (IF bitShift > 0 THEN 0 .. (NumWords - wordShift - 1) ELSE {})

\* the bit accessors checking the index against zero only
BitWordIndexNoUpper(i) == IF i < 0 THEN {} ELSE {i \div WordBits}

\* Bit, SetBit, ClearBit, FlipBit: wordIndex, when the index passes the check
BitWordIndex(i) == IF i < 0 \/ i >= Width THEN {} ELSE {i \div WordBits}

\* Mul: result.words[i+j], result.words[i+j+1] and the words of the carry loop
MulIndices(uw, ow, rl) ==
    UNION {
        IF uw[i] = 0 THEN {}
        ELSE UNION {
                 IF ~(i + j < rl) \/ ow[j] = 0 THEN {}
                 ELSE {i + j} \cup (IF i + j + 1 < rl THEN {i + j + 1} ELSE {})
                 : j \in 0 .. (NumWords - 1)}
             \cup {k \in (i + NumWords) .. (rl - 1) : k < rl}
        : i \in 0 .. (NumWords - 1)}

\* FromLimbs: u.words[:n] and limbs[:n]
LimbBounds(in) ==
    LET n == Min2(Len(in), NumWords)
    IN  {<<0, n, NumWords>>, <<0, n, Len(in)>>}

\* FromLeBytes: data[start:start+bytesToRead] for every word that is read
LeBounds(d) ==
    LET dataLen == Min2(Len(d), NumBytes)
    IN  {<<i * BytesPerWord,
           i * BytesPerWord
             + (IF i * BytesPerWord + BytesPerWord > dataLen
                THEN dataLen - i * BytesPerWord ELSE BytesPerWord),
           Len(d)>> : i \in {j \in 0 .. (NumWords - 1) : j * BytesPerWord < dataLen}}

\* FromBeBytes: padded[64-dataLen:], data[:dataLen], padded[start:start+8]
BeBounds(d) ==
    LET dataLen == Min2(Len(d), NumBytes)
    IN  IF dataLen = 0 THEN {}
        ELSE {<<NumBytes - dataLen, NumBytes, NumBytes>>, <<0, dataLen, Len(d)>>}
             \cup {<<i * BytesPerWord, i * BytesPerWord + BytesPerWord, NumBytes>>
                   : i \in 0 .. (NumWords - 1)}

\* ---------------------------------------------------------------- state machine
\* the objects of an earlier call that the caller no longer holds are reclaimed
Release(h) ==
    [a \in Addr |-> IF a \in Temps THEN ZeroWords
                    ELSE IF a = "w" THEN ZeroWide
                    ELSE h[a]]

InitHeap(uw, ow) ==
    [a \in Addr |->
        CASE a = "ZERO" -> ZeroWords
          [] a = "ONE" -> OneWords
          [] a = "MAX" -> MaxWords
          [] a = "u" -> uw
          [] a = "o" -> ow
          [] a = "w" -> ZeroWide
          [] OTHER -> ZeroWords]

NoCall ==
    /\ ret = NIL
    /\ err = FALSE
    /\ op = "init"
    /\ bres = FALSE
    /\ ires = 0
    /\ data = <<>>
    /\ dataSrc = "none"
    /\ limbs = <<>>
    /\ limbsSrc = "none"
    /\ arg = 0
    /\ str = <<>>

\* two operands built by the constructors, nothing called yet
InitPair ==
    /\ \E uw \in OperandSamples, ow \in OperandSamples : heap = InitHeap(uw, ow)
    /\ pre = heap
    /\ NoCall

\* one value built by the constructors, nothing called yet
InitOne ==
    /\ \E uw \in Uint512 : heap = InitHeap(uw, ZeroWords)
    /\ pre = heap
    /\ NoCall

\* One call on freshly built operands: r := u.Op(o), or r, err := u.Op(o).
\* The objects the call allocates are in r.h and the one it returns is r.ref;
\* pre keeps the heap as it was when the call was made.
Returned(name, r, e) ==
    /\ op = "init"
    /\ op' = name
    /\ pre' = heap
    /\ heap' = r.h
    /\ ret' = r.ref
    /\ err' = e
    /\ UNCHANGED <<bres, ires, data, dataSrc, limbs, limbsSrc, arg, str>>

DoAdd == Returned("Add", Add(Release(heap), "u", "o", "t1"), FALSE)

DoSub == Returned("Sub", Sub(Release(heap), "u", "o", "t1"), FALSE)

DoMul == Returned("Mul", Mul(Release(heap), "u", "o", "w"), FALSE)

\* the identity elements as arguments
DoAddZero == Returned("AddZERO", Add(Release(heap), "u", "ZERO", "t1"), FALSE)

DoSubZero == Returned("SubZERO", Sub(Release(heap), "u", "ZERO", "t1"), FALSE)

DoMulOne == Returned("MulONE", Mul(Release(heap), "u", "ONE", "w"), FALSE)

NextArith ==
    \/ DoAdd
    \/ DoSub
    \/ DoMul
    \/ DoAddZero
    \/ DoSubZero
    \/ DoMulOne

SpecArith == InitPair /\ [][NextArith]_vars

DoDiv ==
    LET r == Div(Release(heap), "u", "o", "t1", "t2")
    IN  Returned("Div", r, r.err)

DoMod ==
    LET r == Mod(Release(heap), "u", "o", "t1")
    IN  Returned("Mod", r, r.err)

\* q, _ := u.Div(o); m, _ := u.Mod(o); p := q.Mul(o); the caller copies the
\* low words of p into a value t and returns t.Add(m)
Recompose(h, u, o) ==
    LET q == Div(h, u, o, "t1", "t2")
        m == Mod(q.h, u, o, "t3")
        p == Mul(m.h, q.ref, o, "w")
        t == [p.h EXCEPT !["t4"] = [i \in WordIdx |-> p.h[p.ref][i]]]
    IN  IF q.err THEN q ELSE Add(t, "t4", m.ref, "t5") @@ [err |-> FALSE]

DoRecompose ==
    LET r == Recompose(Release(heap), "u", "o")
    IN  Returned("Recompose", r, r.err)

NextDiv ==
    \/ DoDiv
    \/ DoMod

SpecDiv == InitPair /\ [][NextDiv]_vars

SpecRecompose == InitPair /\ [][DoRecompose]_vars

\* a call returning a bool
ReturnedBool(name, b) ==
    /\ op = "init"
    /\ op' = name
    /\ bres' = b
    /\ UNCHANGED <<heap, pre, ret, err, ires, data, dataSrc, limbs, limbsSrc, arg, str>>

DoEqual == ReturnedBool("Equal", Equal(heap["u"], heap["o"]))

DoLess == ReturnedBool("Less", Less(heap["u"], heap["o"]))

DoLessOrEqual == ReturnedBool("LessOrEqual", LessOrEqual(heap["u"], heap["o"]))

DoGreater == ReturnedBool("Greater", Greater(heap["u"], heap["o"]))

DoGreaterOrEqual ==
    ReturnedBool("GreaterOrEqual", GreaterOrEqual(heap["u"], heap["o"]))

DoNotEqual == ReturnedBool("NotEqual", NotEqual(heap["u"], heap["o"]))

DoCompare ==
    /\ op = "init"
    /\ op' = "Compare"
    /\ ires' = Compare(heap["u"], heap["o"])
    /\ UNCHANGED <<heap, pre, ret, err, bres, data, dataSrc, limbs, limbsSrc, arg, str>>

NextCmp ==
    \/ DoEqual
    \/ DoLess
    \/ DoLessOrEqual
    \/ DoGreater
    \/ DoGreaterOrEqual
    \/ DoNotEqual
    \/ DoCompare

SpecCmp == InitPair /\ [][NextCmp]_vars

\* limbs := u.ToLimbs()
DoToLimbs ==
    /\ op = "init"
    /\ op' = "ToLimbs"
    /\ limbs' = ToLimbs(heap["u"])
    /\ limbsSrc' = "ToLimbs"
    /\ UNCHANGED <<heap, pre, ret, err, bres, ires, data, dataSrc, arg, str>>

\* data := u.ToLeBytes() or u.ToBeBytes()
Exported(name, bytes) ==
    /\ op = "init"
    /\ op' = name
    /\ data' = bytes
    /\ dataSrc' = name
    /\ UNCHANGED <<heap, pre, ret, err, bres, ires, limbs, limbsSrc, arg, str>>

DoToLeBytes == Exported("ToLeBytes", ToLeBytes(heap["u"]))

DoToBeBytes == Exported("ToBeBytes", ToBeBytes(heap["u"]))

\* r := FromX(s) on the slice the caller holds
Constructed(name, r) ==
    /\ op' = name
    /\ pre' = heap
    /\ heap' = r.h
    /\ ret' = r.ref
    /\ UNCHANGED <<err, bres, ires, data, dataSrc, limbs, limbsSrc, arg, str>>

DoFromLimbs ==
    /\ op \in {"init", "ToLimbs"}
    /\ Constructed("FromLimbs", FromLimbs(heap, limbs, "t1"))

DoFromLeBytes ==
    /\ op \in {"init", "ToLeBytes", "ToBeBytes"}
    /\ Constructed("FromLeBytes", FromLeBytes(heap, data, "t1"))

DoFromBeBytes ==
    /\ op \in {"init", "ToLeBytes", "ToBeBytes"}
    /\ Constructed("FromBeBytes", FromBeBytes(heap, data, "t1"))

NextCodec ==
    \/ DoToLimbs
    \/ DoToLeBytes
    \/ DoToBeBytes
    \/ DoFromLimbs
    \/ DoFromLeBytes
    \/ DoFromBeBytes

SpecCodec == InitOne /\ [][NextCodec]_vars

\* one value built by the constructors for the shift and bit calls
InitPattern ==
    /\ \E uw \in PatternOperands : heap = InitHeap(uw, ZeroWords)
    /\ pre = heap
    /\ NoCall

\* one call with the integer argument n on freshly built operands
Called(name, r, n) ==
    /\ op = "init"
    /\ op' = name
    /\ arg' = n
    /\ pre' = heap
    /\ heap' = r.h
    /\ ret' = r.ref
    /\ UNCHANGED <<err, bres, ires, data, dataSrc, limbs, limbsSrc, str>>

DoShl == \E n \in ShiftCounts : Called("Shl", Shl(Release(heap), "u", n, "t1"), n)

DoShr == \E n \in ShiftCounts : Called("Shr", Shr(Release(heap), "u", n, "t1"), n)

\* u.Shl(k).Shr(k)
ShlShr(h, u, k) ==
    LET l == Shl(h, u, k, "t1")
    IN  Shr(l.h, l.ref, k, "t2")

DoShlShr ==
    \E k \in 0 .. (Width - 1) : Called("ShlShr", ShlShr(Release(heap), "u", k), k)

NextShift ==
    \/ DoShl
    \/ DoShr
    \/ DoShlShr

SpecShift == InitPattern /\ [][NextShift]_vars

\* u.Op(n): one call that writes the receiver
Mutated(name, w, n) ==
    /\ op = "init"
    /\ op' = name
    /\ arg' = n
    /\ pre' = heap
    /\ heap' = [Release(heap) EXCEPT !["u"] = w]
    /\ UNCHANGED <<ret, err, bres, ires, data, dataSrc, limbs, limbsSrc, str>>

DoSetBit == \E i \in BitIndices : Mutated("SetBit", SetBitWords(heap["u"], i), i)

DoClearBit ==
    \E i \in BitIndices : Mutated("ClearBit", ClearBitWords(heap["u"], i), i)

DoFlipBit ==
    \E i \in BitIndices : Mutated("FlipBit", FlipBitWords(heap["u"], i), i)

\* a second u.FlipBit(i) with the same index
DoFlipBitAgain ==
    /\ op = "FlipBit"
    /\ op' = "FlipBit;FlipBit"
    /\ heap' = [heap EXCEPT !["u"] = FlipBitWords(heap["u"], arg)]
    /\ UNCHANGED <<pre, ret, err, bres, ires, data, dataSrc, limbs, limbsSrc, arg, str>>

\* u.Bit(i) on a fresh value, or with the index of the call just made
DoBit ==
    /\ op \in {"init", "SetBit", "ClearBit", "FlipBit"}
    /\ \E i \in (IF op = "init" THEN BitIndices ELSE {arg}) :
          /\ arg' = i
          /\ bres' = Bit(heap["u"], i)
    /\ op' = CASE op = "init" -> "Bit"
               [] op = "SetBit" -> "SetBit;Bit"
               [] op = "ClearBit" -> "ClearBit;Bit"
               [] op = "FlipBit" -> "FlipBit;Bit"
    /\ UNCHANGED <<heap, pre, ret, err, ires, data, dataSrc, limbs, limbsSrc, str>>

NextBits ==
    \/ DoSetBit
    \/ DoClearBit
    \/ DoFlipBit
    \/ DoFlipBitAgain
    \/ DoBit

SpecBits == InitPattern /\ [][NextBits]_vars

\* the slices a caller passes to the constructors: every byte slice of up to
\* one byte more than a value holds, every limb slice of up to one limb more
ByteVals == 0 .. 1
ByteSlices == UNION {[1 .. n -> ByteVals] : n \in 0 .. (NumBytes + 1)}
LimbSlices == UNION {[1 .. n -> WordSamples] : n \in 0 .. (NumWords + 1)}

InitSlices ==
    /\ heap = InitHeap(ZeroWords, ZeroWords)
    /\ pre = heap
    /\ ret = NIL
    /\ err = FALSE
    /\ op = "init"
    /\ bres = FALSE
    /\ ires = 0
    /\ arg = 0
    /\ str = <<>>
    /\ dataSrc = "caller"
    /\ limbsSrc = "caller"
    /\ \/ data \in ByteSlices /\ limbs = <<>>
       \/ data = <<>> /\ limbs \in LimbSlices

NextSlices ==
    \/ DoFromLimbs
    \/ DoFromLeBytes
    \/ DoFromBeBytes

SpecSlices == InitSlices /\ [][NextSlices]_vars

\* a value and a double-width product at the text scale
InitText ==
    /\ \E uw \in TextOperands :
       \E hw \in {uw} \cup {[i \in WordIdx |-> v] : v \in TextSamples} :
          heap = [a \in Addr |->
                    CASE a = "u" -> uw
                      [] a = "ONE" -> OneWords
                      [] a = "MAX" -> [i \in WordIdx |-> TextWordMax]
                      [] a = "w" -> [i \in WideIdx |->
                                       IF i < NumWords THEN uw[i]
                                       ELSE hw[i - NumWords]]
                      [] OTHER -> ZeroWords]
    /\ pre = heap
    /\ NoCall

\* s := u.String() or u.Hex()
Rendered(name, r) ==
    /\ op = "init"
    /\ op' = name
    /\ pre' = heap
    /\ heap' = r.h
    /\ str' = r.str
    /\ UNCHANGED <<ret, err, bres, ires, data, dataSrc, limbs, limbsSrc, arg>>

DoString == Rendered("String", String(Release(heap), "u", "t1"))

DoWideString == Rendered("WideString", WideString(heap, "w", "t1"))

DoHex == Rendered("Hex", [h |-> heap, str |-> Hex(heap, "u")])

NextText ==
    \/ DoString
    \/ DoWideString
    \/ DoHex

SpecText == InitText /\ [][NextText]_vars

DoMin == Returned("Min", Min(Release(heap), "u", "o", "t1"), FALSE)

DoMax == Returned("Max", Max(Release(heap), "u", "o", "t1"), FALSE)

NextMinMax ==
    \/ DoMin
    \/ DoMax

SpecMinMax == InitPair /\ [][NextMinMax]_vars

DoShlInPlace ==
    \E n \in ShiftCounts : Mutated("ShlInPlace", ShlWords(heap["u"], n), n)

DoShrInPlace ==
    \E n \in ShiftCounts : Mutated("ShrInPlace", ShrWords(heap["u"], n), n)

\* the slices of every length up to a word more than a value holds
LongSlices(vals, n) == {[k \in 1 .. m |-> v] : m \in 0 .. n, v \in vals}

\* the caller holds two values, or a byte slice, or a limb slice
InitTotal ==
    /\ ret = NIL
    /\ err = FALSE
    /\ op = "init"
    /\ bres = FALSE
    /\ ires = 0
    /\ arg = 0
    /\ str = <<>>
    /\ dataSrc = "caller"
    /\ limbsSrc = "caller"
    /\ \/ /\ \E uw \in OperandSamples : \E ow \in {ZeroWords, MaxWords, uw} :
                heap = InitHeap(uw, ow)
          /\ data = <<>>
          /\ limbs = <<>>
       \/ /\ heap = InitHeap(ZeroWords, ZeroWords)
          /\ data \in LongSlices(ByteVals, NumBytes + BytesPerWord)
          /\ limbs = <<>>
       \/ /\ heap = InitHeap(ZeroWords, ZeroWords)
          /\ data = <<>>
          /\ limbs \in LongSlices(WordSamples, NumWords + 1)
    /\ pre = heap

NextTotal ==
    \/ DoFromLimbs
    \/ DoFromLeBytes
    \/ DoFromBeBytes
    \/ DoShl
    \/ DoShr
    \/ DoShlInPlace
    \/ DoShrInPlace
    \/ DoBit
    \/ DoSetBit
    \/ DoClearBit
    \/ DoFlipBit
    \/ DoAdd
    \/ DoSub
    \/ DoMul

SpecTotal == InitTotal /\ [][NextTotal]_vars

DoAnd == Returned("And", And(Release(heap), "u", "o", "t1"), FALSE)

DoOr == Returned("Or", Or(Release(heap), "u", "o", "t1"), FALSE)

DoXor == Returned("Xor", Xor(Release(heap), "u", "o", "t1"), FALSE)

DoNot == Returned("Not", Not(Release(heap), "u", "t1"), FALSE)

DoClone == Returned("Clone", Clone(Release(heap), "u", "t1"), FALSE)

DoIsZero == ReturnedBool("IsZero", IsZero(heap, "u"))

\* the arguments paired with a receiver: the extremes, the receiver's own
\* value and its words in the opposite order
FrameArgs(uw) ==
    {ZeroWords, OneWords, MaxWords, uw, [i \in WordIdx |-> uw[NumWords - 1 - i]]}

InitFrame ==
    /\ \E uw \in OperandSamples : \E ow \in FrameArgs(uw) : heap = InitHeap(uw, ow)
    /\ pre = heap
    /\ NoCall

\* the operations that hand the caller an object of its own
Fresh ==
    {"Add", "Sub", "And", "Or", "Xor", "Not", "Shl", "Shr", "Div", "Mod", "Min",
     "Max", "Clone", "FromLimbs", "FromLeBytes", "FromBeBytes"}

\* r.XInPlace(...) on the object r the last call returned
DoInPlaceOnResult ==
    /\ op \in Fresh
    /\ ret # NIL
    /\ op' = op \o ";InPlace"
    /\ \E h \in {NotInPlace(heap, ret), AddInPlace(heap, ret, "ONE"),
                 OrInPlace(heap, ret, "MAX"), ShlInPlace(heap, ret, 1)} : heap' = h
    /\ UNCHANGED <<pre, ret, err, bres, ires, data, dataSrc, limbs, limbsSrc, arg, str>>

\* limbs[0] = ^limbs[0] on the slice ToLimbs returned
DoWriteLimb ==
    /\ op = "ToLimbs"
    /\ op' = "WriteLimb"
    /\ limbs' = [limbs EXCEPT ![1] = Not64(@)]
    /\ UNCHANGED <<heap, pre, ret, err, bres, ires, data, dataSrc, limbsSrc, arg, str>>

\* the caller drops what the last call returned and is ready for the next call
DoReturn ==
    /\ op # "init"
    /\ heap' = Release(heap)
    /\ pre' = Release(heap)
    /\ op' = "init"
    /\ ret' = NIL
    /\ err' = FALSE
    /\ bres' = FALSE
    /\ ires' = 0
    /\ data' = <<>>
    /\ dataSrc' = "none"
    /\ limbs' = <<>>
    /\ limbsSrc' = "none"
    /\ arg' = 0
    /\ str' = <<>>

NextFrame ==
    \/ DoAdd
    \/ DoSub
    \/ DoMul
    \/ DoDiv
    \/ DoMod
    \/ DoAnd
    \/ DoOr
    \/ DoXor
    \/ DoNot
    \/ DoShl
    \/ DoShr
    \/ DoMin
    \/ DoMax
    \/ DoClone
    \/ DoEqual
    \/ DoLess
    \/ DoLessOrEqual
    \/ DoGreater
    \/ DoGreaterOrEqual
    \/ DoNotEqual
    \/ DoCompare
    \/ DoIsZero
    \/ DoToLimbs
    \/ DoToLeBytes
    \/ DoToBeBytes
    \/ DoFromLimbs
    \/ DoFromLeBytes
    \/ DoFromBeBytes
    \/ DoString
    \/ DoHex
    \/ DoInPlaceOnResult
    \/ DoWriteLimb
    \/ DoReturn

SpecFrame == InitFrame /\ [][NextFrame]_vars

\* p := u.Mul(o) taken one pass of its i loop at a time: arg is i, heap["w"]
\* the words of result, ires the carry the carry loop of the last pass exited
\* with and bres whether that loop ran
DoMulRow ==
    /\ op \in {"init", "MulRow"}
    /\ arg < NumWords
    /\ LET r == MulRow(heap["w"], heap["u"], heap["o"], arg, WideWords)
       IN  /\ heap' = [heap EXCEPT !["w"] = r.res]
           /\ ires' = r.carry
           /\ bres' = r.ran
    /\ op' = "MulRow"
    /\ arg' = arg + 1
    /\ ret' = "w"
    /\ UNCHANGED <<pre, err, data, dataSrc, limbs, limbsSrc, str>>

SpecMulRows == InitPair /\ [][DoMulRow]_vars

DoMul1024 == Returned("Mul1024", Mul1024(Release(heap), "u", "o", "t1"), FALSE)

SpecMul1024 == InitPair /\ [][DoMul1024]_vars

\* q, _ := u.Div(o) up to the start of its bit loop: none of the early returns
\* is taken, quotient and remainder are fresh zeros and i is Width - 1
DoDivEnter ==
    /\ op = "init"
    /\ ~IsZero(heap, "o")
    /\ ~Less(heap["u"], heap["o"])
    /\ ~Equal(heap["u"], heap["o"])
    /\ LET quotient == Clone(Release(heap), "ZERO", "t1")
           remainder == Clone(quotient.h, "ZERO", "t2")
       IN  heap' = remainder.h
    /\ op' = "DivLoop"
    /\ arg' = Width - 1
    /\ pre' = heap
    /\ bres' = FALSE
    /\ UNCHANGED <<ret, err, ires, data, dataSrc, limbs, limbsSrc, str>>

\* one pass of the bit loop of Div: arg is i, bres tells whether a bit was lost
DoDivStep ==
    /\ op = "DivLoop"
    /\ arg >= 0
    /\ LET s == DivStep(heap["u"], heap["o"], heap["t1"], heap["t2"], arg)
       IN  /\ heap' = [heap EXCEPT !["t1"] = s.quotient, !["t2"] = s.remainder]
           /\ bres' = s.lost
    /\ arg' = arg - 1
    /\ UNCHANGED <<op, pre, ret, err, ires, data, dataSrc, limbs, limbsSrc, str>>

\* m, _ := u.Mod(o) up to the start of its bit loop
DoModEnter ==
    /\ op = "init"
    /\ ~IsZero(heap, "o")
    /\ ~Less(heap["u"], heap["o"])
    /\ ~Equal(heap["u"], heap["o"])
    /\ heap' = Clone(Release(heap), "ZERO", "t1").h
    /\ op' = "ModLoop"
    /\ arg' = Width - 1
    /\ pre' = heap
    /\ bres' = FALSE
    /\ UNCHANGED <<ret, err, ires, data, dataSrc, limbs, limbsSrc, str>>

\* one pass of the bit loop of Mod
DoModStep ==
    /\ op = "ModLoop"
    /\ arg >= 0
    /\ LET s == ModStep(heap["u"], heap["o"], heap["t1"], arg)
       IN  /\ heap' = [heap EXCEPT !["t1"] = s.remainder]
           /\ bres' = s.lost
    /\ arg' = arg - 1
    /\ UNCHANGED <<op, pre, ret, err, ires, data, dataSrc, limbs, limbsSrc, str>>

NextDivSteps ==
    \/ DoDivEnter
    \/ DoDivStep
    \/ DoModEnter
    \/ DoModStep

SpecDivSteps == InitPair /\ [][NextDivSteps]_vars

\* u.XInPlace(...): one call that writes the receiver and returns nothing
InPlace(name, h) ==
    /\ op = "init"
    /\ op' = name
    /\ pre' = heap
    /\ heap' = h
    /\ UNCHANGED <<ret, err, bres, ires, data, dataSrc, limbs, limbsSrc, arg, str>>

\* u.AddInPlace(o), and u.AddInPlace(u) with the receiver as its own argument
DoAddInPlace ==
    \/ InPlace("AddInPlace", AddInPlace(Release(heap), "u", "o"))
    \/ InPlace("AddInPlaceSelf", AddInPlace(Release(heap), "u", "u"))

DoSubInPlace ==
    \/ InPlace("SubInPlace", SubInPlace(Release(heap), "u", "o"))
    \/ InPlace("SubInPlaceSelf", SubInPlace(Release(heap), "u", "u"))

DoAndInPlace ==
    \/ InPlace("AndInPlace", AndInPlace(Release(heap), "u", "o"))
    \/ InPlace("AndInPlaceSelf", AndInPlace(Release(heap), "u", "u"))

DoOrInPlace ==
    \/ InPlace("OrInPlace", OrInPlace(Release(heap), "u", "o"))
    \/ InPlace("OrInPlaceSelf", OrInPlace(Release(heap), "u", "u"))

DoXorInPlace ==
    \/ InPlace("XorInPlace", XorInPlace(Release(heap), "u", "o"))
    \/ InPlace("XorInPlaceSelf", XorInPlace(Release(heap), "u", "u"))

DoNotInPlace == InPlace("NotInPlace", NotInPlace(Release(heap), "u"))

NextInPlace ==
    \/ DoAddInPlace
    \/ DoSubInPlace
    \/ DoAndInPlace
    \/ DoOrInPlace
    \/ DoXorInPlace
    \/ DoNotInPlace
    \/ DoShlInPlace
    \/ DoShrInPlace

SpecInPlace == InitFrame /\ [][NextInPlace]_vars

\* ---------------------------------------------------------------- properties
U == heap["u"]
O == heap["o"]
Result == heap[ret]
AllZero(w) == \A i \in WordIdx : w[i] = 0

\* C1: after Mul the double-width result is the exact product of the operands
C1_MulExact ==
    op = "Mul" => WideValue(Result) = Value(U) * Value(O)

\* C2: for a non-zero divisor, the low words of Mul(Div(a, b), b) added to
\* Mod(a, b) give a again
C2_Recompose ==
    (op = "Recompose" /\ ~err) => Result = U

\* C3: for a non-zero divisor Div returns floor(a / b) and a nil error, zero
\* when a < b and one when a == b
C3_DivFloor ==
    (op = "Div" /\ ~AllZero(O)) =>
        /\ ~err
        /\ ret # NIL
        /\ Value(Result) = Value(U) \div Value(O)
        /\ (Value(U) < Value(O) => Result = ZeroWords)
        /\ (Value(U) = Value(O) => Result = OneWords)

\* a Div that ran the bit loop: quotient above one, remainder not zero
C3_Witness ==
    /\ op = "Div"
    /\ Value(O) > 1
    /\ Value(U) >= 2 * Value(O)
    /\ Value(U) % Value(O) # 0
    /\ O[NumWords - 1] # 0

\* C4: for a non-zero divisor Mod returns a mod b and a nil error, and the
\* result is strictly less than b
C4_ModRemainder ==
    (op = "Mod" /\ ~AllZero(O)) =>
        /\ ~err
        /\ ret # NIL
        /\ Value(Result) = Value(U) % Value(O)
        /\ Less(Result, O)
        /\ (Value(U) < Value(O) => Result = U)
        /\ (Value(U) = Value(O) => Result = ZeroWords)

\* a Mod that ran the bit loop and left a non-zero remainder
C4_Witness ==
    /\ op = "Mod"
    /\ Value(O) > 1
    /\ Value(U) >= 2 * Value(O)
    /\ Value(Result) # 0
    /\ O[NumWords - 1] # 0

\* C5: Div and Mod return an error and no result exactly when every word of
\* the divisor is zero, whatever the dividend, and leave both operands as
\* they were
C5_DivByZero ==
    op \in {"Div", "Mod"} =>
        /\ err <=> AllZero(O)
        /\ err => ret = NIL
        /\ ~err => ret # NIL
        /\ heap["u"] = pre["u"]
        /\ heap["o"] = pre["o"]

\* zero divided by zero
C5_Witness ==
    /\ op \in {"Div", "Mod"}
    /\ AllZero(U)
    /\ AllZero(O)
    /\ err
    /\ ret = NIL

\* C6: Add and Sub are addition and subtraction modulo 2^Width; the carry or
\* borrow out of the top word is dropped and nothing is signalled
C6_AddSubModular ==
    /\ op = "Add" =>
          /\ Value(Result) = (Value(U) + Value(O)) % Modulus
          /\ ~err
    /\ op = "Sub" =>
          /\ Value(Result) = (Value(U) + Modulus - Value(O)) % Modulus
          /\ (Value(U) < Value(O) =>
                Value(Result) = Modulus + Value(U) - Value(O))
          /\ ~err

\* a Sub that borrows out of the top word
C6_Witness ==
    /\ op = "Sub"
    /\ Value(U) < Value(O)
    /\ U[0] < O[0]
    /\ Value(Result) > Value(U)

\* C7: ZERO is the identity of Add and Sub, and the low words of Mul(a, ONE)
\* are a
C7_Identities ==
    /\ op = "AddZERO" => Result = U
    /\ op = "SubZERO" => Result = U
    /\ op = "MulONE" => \A i \in WordIdx : Result[i] = U[i]

\* Mul by ONE of a value with no zero word
C7_Witness ==
    /\ op = "MulONE"
    /\ \A i \in WordIdx : U[i] = WordMax
    /\ heap["ONE"] = OneWords

\* C8: Compare yields -1, 0 or 1, is antisymmetric, and is 0 exactly when
\* Equal holds
C8_CompareEqual ==
    /\ op = "Compare" =>
          /\ ires \in {-1, 0, 1}
          /\ ires = 0 - Compare(O, U)
          /\ Equal(U, O) <=> ires = 0
    /\ op = "Equal" => (bres <=> Compare(U, O) = 0)

\* operands equal in the top word and different below it
C8_Witness ==
    /\ op = "Compare"
    /\ U[NumWords - 1] = O[NumWords - 1]
    /\ U[0] # O[0]
    /\ ires = 1

\* C9: the ordering predicates agree with the numeric order and with each
\* other, and exactly one of Less, Equal, Greater holds of a pair
C9_Ordering ==
    /\ op = "Less" =>
          /\ bres <=> Value(U) < Value(O)
          /\ bres <=> Compare(U, O) = -1
    /\ op = "Greater" =>
          /\ bres <=> Less(O, U)
          /\ bres <=> Value(U) > Value(O)
    /\ op = "LessOrEqual" =>
          /\ bres <=> ~Greater(U, O)
          /\ bres <=> Value(U) <= Value(O)
    /\ op = "GreaterOrEqual" =>
          /\ bres <=> ~Less(U, O)
          /\ bres <=> Value(U) >= Value(O)
    /\ op = "NotEqual" => (bres <=> ~Equal(U, O))
    /\ op = "Equal" => (bres <=> Value(U) = Value(O))
    /\ Cardinality({p \in {"lt", "eq", "gt"} :
                      \/ p = "lt" /\ Less(U, O)
                      \/ p = "eq" /\ Equal(U, O)
                      \/ p = "gt" /\ Greater(U, O)}) = 1

\* a < b although the low word of a is the larger
C9_Witness ==
    /\ op = "Less"
    /\ bres
    /\ U[0] > O[0]

\* C10: each exporter followed by its constructor gives the value back
C10_RoundTrip ==
    /\ (op = "FromLimbs" /\ limbsSrc = "ToLimbs") => Result = U
    /\ (op = "FromLeBytes" /\ dataSrc = "ToLeBytes") => Result = U
    /\ (op = "FromBeBytes" /\ dataSrc = "ToBeBytes") => Result = U

\* a big-endian round trip of a value whose byte order matters
C10_Witness ==
    /\ op = "FromBeBytes"
    /\ dataSrc = "ToBeBytes"
    /\ U[0] = 1
    /\ U[NumWords - 1] = 2
    /\ FromLeBytesWords(data) # U

\* n single-bit shifts of a word array
RECURSIVE ShlTimes(_, _)
ShlTimes(w, n) ==
    IF n = 0 THEN w
    ELSE LET s == ShlTimes(w, n - 1)
         IN  IF s \in Uint512 THEN ShlWords(s, 1) ELSE s

RECURSIVE ShrTimes(_, _)
ShrTimes(w, n) ==
    IF n = 0 THEN w
    ELSE LET s == ShrTimes(w, n - 1)
         IN  IF s \in Uint512 THEN ShrWords(s, 1) ELSE s

\* C11: a left shift by 0 returns the value, a left shift by the width returns
\* zero, and for k below the width Shr(Shl(a, k), k) is a with its top k bits
\* cleared
C11_ShiftLaws ==
    /\ (op = "Shl" /\ arg = 0) => Result = U
    /\ (op = "Shl" /\ arg = Width) => Result = ZeroWords
    /\ op = "ShlShr" => Value(Result) = Value(U) % (2 ^ (Width - arg))

\* a shift out and back that crosses a word boundary and loses set bits
C11_Witness ==
    /\ op = "ShlShr"
    /\ arg > WordBits
    /\ arg % WordBits # 0
    /\ Value(Result) # 0
    /\ Value(Result) # Value(U)

\* C12: for every count n, Shl is multiplication by 2^n modulo 2^Width and Shr
\* is the floor of the division by 2^n, every count from the width on gives
\* zero, and both agree with n single-bit shifts
C12_ShiftArithmetic ==
    /\ op = "Shl" =>
          /\ Value(Result) = IF arg >= Width THEN 0
                             ELSE (Value(U) % (2 ^ (Width - arg))) * (2 ^ arg)
          /\ Result = ShlTimes(U, arg)
    /\ op = "Shr" =>
          /\ Value(Result) = IF arg >= Width THEN 0
                             ELSE Value(U) \div (2 ^ arg)
          /\ Result = ShrTimes(U, arg)

\* a right shift by whole words and some bits that keeps part of the value
C12_Witness ==
    /\ op = "Shr"
    /\ arg > WordBits
    /\ arg % WordBits # 0
    /\ Value(Result) # 0
    /\ U[0] # 0

\* bit j of the number a word array holds
NumBit(w, j) == (Value(w) \div (2 ^ j)) % 2 = 1

InRange(i) == 0 <= i /\ i < Width

\* C13: with an index inside the width, Bit is true after SetBit, false after
\* ClearBit and inverted after FlipBit, two FlipBits restore the value, and
\* every other bit is left alone; with an index outside the width the three
\* writers change nothing and Bit is false
C13_BitOps ==
    /\ (op = "SetBit;Bit" /\ InRange(arg)) => bres /\ NumBit(U, arg)
    /\ (op = "ClearBit;Bit" /\ InRange(arg)) => ~bres /\ ~NumBit(U, arg)
    /\ (op = "FlipBit;Bit" /\ InRange(arg)) =>
          /\ bres <=> ~NumBit(pre["u"], arg)
          /\ bres <=> NumBit(U, arg)
    /\ op = "FlipBit;FlipBit" => U = pre["u"]
    /\ (op \in {"SetBit", "ClearBit", "FlipBit"} /\ InRange(arg)) =>
          \A j \in 0 .. (Width - 1) :
              j # arg => (NumBit(U, j) <=> NumBit(pre["u"], j))
    /\ (op \in {"SetBit", "ClearBit", "FlipBit"} /\ ~InRange(arg)) =>
          U = pre["u"]
    /\ (op \in {"Bit", "SetBit;Bit", "ClearBit;Bit", "FlipBit;Bit"}
          /\ ~InRange(arg)) => ~bres
    /\ op = "Bit" => (bres <=> (InRange(arg) /\ NumBit(U, arg)))

\* a set bit in the top word flipped off and on again
C13_Witness ==
    /\ op = "FlipBit;FlipBit"
    /\ arg = Width - 1
    /\ NumBit(U, arg)
    /\ U[0] # U[NumWords - 1]

\* the first n bytes of d read as a little-endian and as a big-endian number
RECURSIVE LeNumber(_, _)
LeNumber(d, n) == IF n = 0 THEN 0 ELSE d[n] * (2 ^ (n - 1)) + LeNumber(d, n - 1)

RECURSIVE BeNumber(_, _)
BeNumber(d, n) == IF n = 0 THEN 0 ELSE d[n] + 2 * BeNumber(d, n - 1)

\* C14: FromLimbs takes word i from s[i] for i below min(len(s), NumWords) and
\* zero above; FromLeBytes is the little-endian number of the first
\* min(len(d), NumBytes) bytes of d, whatever the length; empty input is zero
C14_LeConstructors ==
    /\ op = "FromLimbs" =>
          /\ \A i \in WordIdx :
                Result[i] = IF i < Min2(Len(limbs), NumWords)
                            THEN limbs[i + 1] ELSE 0
          /\ limbs = <<>> => Result = ZeroWords
    /\ op = "FromLeBytes" =>
          /\ Value(Result) = LeNumber(data, Min2(Len(data), NumBytes))
          /\ data = <<>> => Result = ZeroWords

\* a byte slice ending inside a word with a set last byte
C14_Witness ==
    /\ op = "FromLeBytes"
    /\ Len(data) < NumBytes
    /\ Len(data) > BytesPerWord
    /\ Len(data) % BytesPerWord # 0
    /\ data[Len(data)] = 1

\* C15: FromBeBytes is the big-endian number of the first min(len(d), NumBytes)
\* bytes of d: a short input keeps its value, an oversized one loses its tail
C15_BeConstructor ==
    op = "FromBeBytes" =>
        Value(Result) = BeNumber(data, Min2(Len(data), NumBytes))

\* a short big-endian input ending inside a word
C15_Witness ==
    /\ op = "FromBeBytes"
    /\ Len(data) < NumBytes
    /\ Len(data) > BytesPerWord
    /\ Len(data) % BytesPerWord # 0
    /\ data[1] = 1
    /\ data[Len(data)] = 1

\* C16: ToLeBytes and ToBeBytes return NumBytes bytes whatever the value; the
\* first read little-endian and the second read big-endian are the value, so
\* the second is the first reversed
C16_ExportBytes ==
    /\ op = "ToLeBytes" =>
          /\ Len(data) = NumBytes
          /\ LeNumber(data, Len(data)) = Value(U)
    /\ op = "ToBeBytes" =>
          /\ Len(data) = NumBytes
          /\ BeNumber(data, Len(data)) = Value(U)
          /\ \A k \in 1 .. NumBytes :
                data[k] = ToLeBytes(U)[NumBytes + 1 - k]

\* a value with zero high words and a low word that is not a palindrome
C16_Witness ==
    /\ op = "ToBeBytes"
    /\ U[NumWords - 1] = 0
    /\ U[0] = 1
    /\ U[1] = WordMax - 1
    /\ data # ToLeBytes(U)

\* the number a digit stands for
DigitVal(c) == CHOOSE d \in 0 .. (HexRadix - 1) : Digits[d + 1] = c

\* acc * radix + carry on a little-endian word array with the words 0 .. n
RECURSIVE MulAddFrom(_, _, _, _, _)
MulAddFrom(acc, i, carry, radix, n) ==
    IF i > n THEN acc
    ELSE LET t == acc[i] * radix + carry
         IN  MulAddFrom([acc EXCEPT ![i] = t % TextBase], i + 1,
                        t \div TextBase, radix, n)

\* the digits from .. to of s read in the given radix
RECURSIVE GroupVal(_, _, _, _)
GroupVal(s, from, to, radix) ==
    IF to < from THEN 0
    ELSE DigitVal(s[to]) + radix * GroupVal(s, from, to - 1, radix)

\* the first k digits of s read in the given radix, three digits at a step, as
\* n words and one more above them for what does not fit
RECURSIVE ReadDigits(_, _, _, _)
ReadDigits(s, k, radix, n) ==
    IF k = 0 THEN [i \in 0 .. n |-> 0]
    ELSE LET g == IF k % 3 = 0 THEN 3 ELSE k % 3
             acc == ReadDigits(s, k - g, radix, n)
         IN  IF DOMAIN acc = 0 .. n
             THEN MulAddFrom(acc, 0, GroupVal(s, k - g + 1, k, radix),
                             radix ^ g, n)
             ELSE acc

\* s is the numeral of the n-word value w in the given radix, without a
\* leading zero
Numeral(s, w, radix, n) ==
    /\ Len(s) >= 1
    /\ \A k \in 1 .. Len(s) : s[k] \in {Digits[d] : d \in 1 .. radix}
    /\ LET r == ReadDigits(s, Len(s), radix, n)
       IN  /\ r[n] = 0
           /\ \A i \in 0 .. (n - 1) : r[i] = w[i]
    /\ Len(s) > 1 => s[1] # "0"

\* C17: String of a value and of a double-width product is its decimal
\* numeral, digits only, no leading zero, "0" for zero, and the receiver keeps
\* its value
C17_Decimal ==
    /\ op = "String" =>
          /\ Numeral(str, U, Ten, NumWords)
          /\ AllZero(U) => str = <<"0">>
          /\ heap["u"] = pre["u"]
    /\ op = "WideString" =>
          /\ Numeral(str, heap["w"], Ten, WideWords)
          /\ isZero(heap["w"]) => str = <<"0">>
          /\ heap["w"] = pre["w"]

\* a product with a set top word and zero words below it
C17_Witness ==
    /\ op = "WideString"
    /\ heap["w"][WideWords - 1] = TextWordMax
    /\ heap["w"][0] = 0
    /\ heap["w"][1] = Ten
    /\ Len(str) > WideWords

\* C18: Hex of zero is "0x0"; otherwise it is "0x", the top non-zero word in
\* lowercase hexadecimal without leading zeros, and every lower word as
\* HexPad zero-padded digits, so the digits read in base 16 are the value
C18_Hex ==
    op = "Hex" =>
        /\ Len(str) > 2
        /\ str[1] = "0"
        /\ str[2] = "x"
        /\ AllZero(U) => str = <<"0", "x", "0">>
        /\ Numeral(SubSeq(str, 3, Len(str)), U, HexRadix, NumWords)
        /\ ~AllZero(U) =>
              LET msw == CHOOSE i \in WordIdx :
                             /\ U[i] # 0
                             /\ \A j \in WordIdx : j > i => U[j] = 0
                  top == CHOOSE k \in 1 .. HexPad :
                             /\ U[msw] < HexRadix ^ k
                             /\ k > 1 => U[msw] >= HexRadix ^ (k - 1)
              IN  Len(str) = 2 + top + msw * HexPad

\* a value whose top non-zero word is short and whose lower words need padding
C18_Witness ==
    /\ op = "Hex"
    /\ U[NumWords - 1] = 0
    /\ U[NumWords - 2] = Ten
    /\ U[0] = 0
    /\ U[1] = Ten

\* C19: Min has the value of the smaller operand and Max of the larger, the
\* object returned is a new one, neither a nor b, and both operands keep their
\* words
C19_MinMax ==
    op \in {"Min", "Max"} =>
        /\ op = "Min" =>
              Value(Result) = IF Value(U) < Value(O) THEN Value(U) ELSE Value(O)
        /\ op = "Max" =>
              Value(Result) = IF Value(U) > Value(O) THEN Value(U) ELSE Value(O)
        /\ ret \in Temps
        /\ ret \notin Operands \cup Globals
        /\ heap["u"] = pre["u"]
        /\ heap["o"] = pre["o"]

\* the second operand is the smaller although its low word is the larger
C19_Witness ==
    /\ op = "Min"
    /\ Value(O) < Value(U)
    /\ U[0] < O[0]
    /\ Result = O

\* every slice expression stays inside its slice
BoundsOk(bounds) ==
    \A b \in bounds : 0 <= b[1] /\ b[1] <= b[2] /\ b[2] <= b[3]

\* C20: with any slice length, shift count, bit index and operand values the
\* constructors, the shifts, the bit accessors and the arithmetic complete:
\* every word index and slice bound they use is in range, they signal no
\* error, and what they return is a value of the type
C20_Total ==
    /\ ~err
    /\ op = "FromLimbs" => BoundsOk(LimbBounds(limbs)) /\ Result \in Uint512
    /\ op = "FromLeBytes" => BoundsOk(LeBounds(data)) /\ Result \in Uint512
    /\ op = "FromBeBytes" => BoundsOk(BeBounds(data)) /\ Result \in Uint512
    /\ op \in {"Shl", "ShlInPlace"} => ShlIndices(arg) \subseteq WordIdx
    /\ op \in {"Shr", "ShrInPlace"} => ShrIndices(arg) \subseteq WordIdx
    /\ op \in {"Shl", "Shr"} => Result \in Uint512
    /\ op \in {"Bit", "SetBit", "ClearBit", "FlipBit"} =>
          BitWordIndex(arg) \subseteq WordIdx
    /\ op \in {"ShlInPlace", "ShrInPlace", "SetBit", "ClearBit", "FlipBit"} =>
          U \in Uint512
    /\ op \in {"Add", "Sub"} => Result \in Uint512
    /\ op = "Mul" =>
          /\ MulIndices(U, O, WideWords) \subseteq WideIdx
          /\ Result \in [WideIdx -> WordVals]

\* a bit index one past the top bit, on a value with its top bit set
C20_Witness ==
    /\ op = "FlipBit"
    /\ arg = Width
    /\ U[NumWords - 1] = WordMax
    /\ U = pre["u"]

C22_SkipFree ==
    op = "Mul" => Result = MulRowsNoSkip(ZeroWide, U, O, 0, WideWords)

\* C23: Mul discards no carry off the top of the double-width result: the carry
\* loop of every pass of the i loop exits with carry == 0, the bounds i+j <
\* len(result.words) and i+j+1 < len(result.words) hold for every pair, and the
\* passes together give the result of Mul.
C23_NoCarryLost ==
    /\ op = "MulRow" => ires = 0
    /\ op = "MulRow" =>
           \A j \in WordIdx : (arg - 1) + j < WideWords /\ (arg - 1) + j + 1 < WideWords
    /\ (op = "MulRow" /\ arg = NumWords) =>
           heap["w"] = Mul(pre, "u", "o", "w").h["w"]

\* the last pass of a product that reaches the top word of the result
C23_Witness ==
    /\ op = "MulRow"
    /\ arg = NumWords
    /\ heap["w"][WideWords - 1] # 0
    /\ U[NumWords - 1] # 0
    /\ ires = 0

\* C24: in the package whose product is not widened, Mul returns the product
\* of the operands reduced modulo 2^Width.
C24_MulTruncated ==
    op = "Mul1024" => Value(Result) = (Value(U) * Value(O)) % Modulus

\* C25: in the bit loops of Div and Mod, at the start of the pass for bit i the
\* running remainder is (a >> (i+1)) mod b, is below b and has its top bit
\* clear, so no pass shifts a set bit out or drops a borrow; when the loop ends
\* the quotient and the remainder are the ones Div and Mod return.
C25_LoopInvariant ==
    op \in {"DivLoop", "ModLoop"} =>
        LET remainder == IF op = "DivLoop" THEN heap["t2"] ELSE heap["t1"]
        IN  /\ Value(remainder) = (Value(U) \div (2 ^ (arg + 1))) % Value(O)
            /\ Value(remainder) < Value(O)
            /\ ~Bit(remainder, Width - 1)
            /\ ~bres
            /\ (op = "DivLoop" /\ arg < 0) =>
                   heap["t1"] = Div(pre, "u", "o", "t1", "t2").h["t1"]
            /\ (op = "ModLoop" /\ arg < 0) =>
                   heap["t1"] = Mod(pre, "u", "o", "t1").h["t1"]

\* the start of a pass of Div after passes that subtracted the divisor and
\* left a non-zero remainder, for a divisor that uses its top word
C25_Witness ==
    /\ op = "DivLoop"
    /\ arg >= 0
    /\ arg < Width - 1
    /\ ~AllZero(heap["t1"])
    /\ ~AllZero(heap["t2"])
    /\ O[NumWords - 1] # 0

\* the words of the object a copy-returning call returns
Words(r) == r.h[r.ref]

\* C26: every in-place operation leaves in its receiver the value its
\* copy-returning form returns and leaves its argument as it was; with the
\* receiver as its own argument AddInPlace gives 2u mod 2^Width, SubInPlace and
\* XorInPlace give zero, AndInPlace and OrInPlace give u.
C26_InPlace ==
    /\ op = "AddInPlace" => U = Words(Add(pre, "u", "o", "t1"))
    /\ op = "SubInPlace" => U = Words(Sub(pre, "u", "o", "t1"))
    /\ op = "AndInPlace" => U = Words(And(pre, "u", "o", "t1"))
    /\ op = "OrInPlace" => U = Words(Or(pre, "u", "o", "t1"))
    /\ op = "XorInPlace" => U = Words(Xor(pre, "u", "o", "t1"))
    /\ op = "NotInPlace" => U = Words(Not(pre, "u", "t1"))
    /\ op = "ShlInPlace" => U = Words(Shl(pre, "u", arg, "t1"))
    /\ op = "ShrInPlace" => U = Words(Shr(pre, "u", arg, "t1"))
    /\ op \in {"AddInPlace", "SubInPlace", "AndInPlace", "OrInPlace", "XorInPlace",
               "NotInPlace", "ShlInPlace", "ShrInPlace"} => O = pre["o"]
    /\ op = "AddInPlaceSelf" =>
           /\ U = Words(Add(pre, "u", "u", "t1"))
           /\ Value(U) = (2 * Value(pre["u"])) % Modulus
    /\ op = "SubInPlaceSelf" => U = Words(Sub(pre, "u", "u", "t1")) /\ AllZero(U)
    /\ op = "XorInPlaceSelf" => U = Words(Xor(pre, "u", "u", "t1")) /\ AllZero(U)
    /\ op = "AndInPlaceSelf" => U = Words(And(pre, "u", "u", "t1")) /\ U = pre["u"]
    /\ op = "OrInPlaceSelf" => U = Words(Or(pre, "u", "u", "t1")) /\ U = pre["u"]

\* u.AddInPlace(u) whose carries run through the words and off the top
C26_Witness ==
    /\ op = "AddInPlaceSelf"
    /\ pre["u"] = MaxWords
    /\ U[0] = WordMax - 1
    /\ U[NumWords - 1] = WordMax

\* the caller has written, in place, the object the last call returned
Written == op \in {name \o ";InPlace" : name \in Fresh}

\* C27: no operation returns ZERO, ONE, MAX or one of its operands: the object
\* returned is the caller's own, and after the caller writes it in place, in
\* any sequence of calls, the operands are as they were, ZERO, ONE, MAX hold
\* 0, 1 and 2^Width - 1, and IsZero, Div and Mod, then and in the calls that
\* follow, tell a zero value or divisor from a non-zero one.
C27_Fresh ==
    /\ ret # NIL => ret \notin (Globals \cup Operands)
    /\ op = "WriteLimb" => U = pre["u"] /\ limbs # ToLimbs(U)
    /\ Written =>
           /\ \A a \in Operands : heap[a] = pre[a]
           /\ heap["ZERO"] = ZeroWords
           /\ heap["ONE"] = OneWords
           /\ heap["MAX"] = MaxWords
           /\ \A a \in Addr \ {"w"} : IsZero(heap, a) <=> AllZero(heap[a])
    /\ op = "IsZero" => (bres <=> AllZero(U))
    /\ op \in {"Div", "Mod"} => (err <=> AllZero(O)) /\ (ret = NIL <=> err)

\* the zero that Div returns for a < b, written by the caller
C27_Witness ==
    /\ op = "Div;InPlace"
    /\ Less(U, O)
    /\ ret = "t1"
    /\ ~AllZero(heap["t1"])
    /\ AllZero(pre["t1"])

====
